---------------------------- MODULE Spec2Model ----------------------------
(***************************************************************************)
(* A model of swagger-to-flowtype (src/src/index.js): the synthesis of     *)
(* Flow type declarations from the named schemas of a Swagger / OpenAPI    *)
(* document, and the command handler that writes one file per schema.      *)
(*                                                                         *)
(* JavaScript values are modelled as follows.                              *)
(*  - A string is a sequence of one-character strings ("text").  The two   *)
(*    sequences Undefined and TypeError hold one longer element each, so   *)
(*    they differ from every text.  Undefined is the value undefined;      *)
(*    TypeError is the outcome of an expression that throws a TypeError    *)
(*    (a property read or an `in` test on undefined).                      *)
(*  - A schema node is a TLA+ record holding exactly the keys the JSON     *)
(*    object holds: `"k" in node` is "k" \in DOMAIN node.  A map whose     *)
(*    key order matters (definitions, properties) is a sequence of         *)
(*    <<name, node>> pairs in Object.keys order.  Property names are       *)
(*    identifiers, for which that order is the insertion order.            *)
(*  - A value built by propertiesList is a tagged record: an object (its   *)
(*    entries in key order), an array, a string, or a thrown error.        *)
(***************************************************************************)
EXTENDS Integers, Sequences, FiniteSets, TLC

VARIABLES
    swagger,    \* the parsed document handed to the command handler
    program,    \* the commander singleton: checkRequired, exact
    engine,     \* which Array.prototype.sort the runtime provides
    pc,         \* position of the command handler
    results,    \* the array generatorArray returned
    next,       \* index of the forEach iteration to run
    written,    \* the writeToFile calls issued so far, in order
    console     \* what console.log was given

vars == <<swagger, program, engine, pc, results, next, written, console>>

(***************************************************************************)
(* Bounds of the model.                                                    *)
(***************************************************************************)
MaxProps == 2

MaxAllOf == 3

(***************************************************************************)
(* Text.                                                                   *)
(***************************************************************************)
Undefined == <<"undefined">>

TypeError == <<"TypeError">>

IsText(v) == v # Undefined /\ v # TypeError

\* String(v) as a template literal `${v}` computes it.
TemplateString(v) == IF v = Undefined THEN <<"u","n","d","e","f","i","n","e","d">> ELSE v

\* An element as Array.prototype.join writes it: undefined as "".
JoinString(v) == IF v = Undefined THEN <<>> ELSE v

RECURSIVE Join(_, _)
\* Array.prototype.join on an array of strings.
Join(parts, sep) ==
    IF Len(parts) = 0 THEN <<>>
    ELSE IF Len(parts) = 1 THEN parts[1]
    ELSE parts[1] \o sep \o Join(Tail(parts), sep)

\* Whether text `pre` occurs in `s` at position i.
StartsAt(s, i, pre) ==
    /\ i + Len(pre) - 1 <= Len(s)
    /\ \A k \in 1..Len(pre) : s[i + k - 1] = pre[k]

\* s.slice(i - 1)
From(s, i) == SubSeq(s, i, Len(s))

\* s.replace(/[set]/g, ""), for a character class `set`.
RemoveChars(s, set) == SelectSeq(s, LAMBDA c : c \notin set)

\* .replace(/"/g, "")
StripQuotes(s) == RemoveChars(s, {"\""})

DefinitionsPrefix == <<"#","/","d","e","f","i","n","i","t","i","o","n","s","/">>

ComponentsPrefix ==
    <<"#","/","c","o","m","p","o","n","e","n","t","s","/","s","c","h","e","m","a","s","/">>

\* Positions of `ref` where /#\/definitions\/(.*)|#\/components\/schemas\/(.*)/
\* can match.
MatchPositions(ref) ==
    {i \in 1..Len(ref) : StartsAt(ref, i, DefinitionsPrefix) \/ StartsAt(ref, i, ComponentsPrefix)}

Min(S) == CHOOSE x \in S : \A y \in S : x <= y

\* found[1] || found[2] of a match that started at position i.  The
\* unmatched group is undefined, and so is the value of `"" || undefined`.
FoundGroup(ref, i) ==
    IF StartsAt(ref, i, DefinitionsPrefix)
    THEN LET g1 == From(ref, i + Len(DefinitionsPrefix))
         IN IF g1 # <<>> THEN g1 ELSE Undefined
    ELSE From(ref, i + Len(ComponentsPrefix))

definitionTypeName(ref) ==
    IF ref = Undefined THEN TypeError
    ELSE IF MatchPositions(ref) = {} THEN <<>>
    ELSE FoundGroup(ref, Min(MatchPositions(ref)))

stripBrackets(name) == RemoveChars(name, {"[", "]", "'"})

removeGenericsBug(value) == RemoveChars(value, {"«", "»"})


(***************************************************************************)
(* Schema nodes.                                                           *)
(***************************************************************************)
Has(node, key) == key \in DOMAIN node

\* node.type; an absent key reads as undefined, which no comparison below
\* tells from the string "undefined".
TypeOf(node) == IF Has(node, "type") THEN node.type ELSE "undefined"

\* node.$ref
RefOf(node) == IF Has(node, "$ref") THEN node["$ref"] ELSE Undefined

\* Whether a string or undefined is truthy.
Truthy(v) == v # Undefined /\ v # <<>>

typeMapping ==
    [array   |-> <<"A","r","r","a","y","<","*",">">>,
     boolean |-> <<"b","o","o","l","e","a","n">>,
     integer |-> <<"n","u","m","b","e","r">>,
     number  |-> <<"n","u","m","b","e","r">>,
     null    |-> <<"n","u","l","l">>,
     object  |-> <<"O","b","j","e","c","t">>,
     Object  |-> <<"O","b","j","e","c","t">>,
     string  |-> <<"s","t","r","i","n","g">>,
     enum    |-> <<"s","t","r","i","n","g">>]

\* typeMapping[type]
TypeMappingAt(type) == IF type \in DOMAIN typeMapping THEN typeMapping[type] ELSE Undefined

ArrayOf(inner) == <<"A","r","r","a","y","<">> \o inner \o <<">">>

(***************************************************************************)
(* Values built by propertiesList.                                         *)
(***************************************************************************)
ObjectValue(entries) == [kind |-> "object", entries |-> entries]

ArrayValue(elems) == [kind |-> "array", elems |-> elems]

StringValue(text) == [kind |-> "string", text |-> text]

Thrown == [kind |-> "throw", error |-> "TypeError"]

\* A string result of typeFor as a value; a thrown error stays one.
Lift(t) ==
    IF t = TypeError THEN Thrown
    ELSE IF t = Undefined THEN [kind |-> "undefined"]
    ELSE StringValue(t)

\* object[key]
Lookup(entries, key) ==
    IF \E i \in 1..Len(entries) : entries[i][1] = key
    THEN entries[CHOOSE i \in 1..Len(entries) : entries[i][1] = key][2]
    ELSE Undefined

\* Object.assign(target, {[key]: value}): an existing key keeps its place.
AssignEntry(entries, key, value) ==
    IF \E i \in 1..Len(entries) : entries[i][1] = key
    THEN [i \in 1..Len(entries) |->
            IF entries[i][1] = key THEN <<key, value>> ELSE entries[i]]
    ELSE Append(entries, <<key, value>>)

\* The string JSON.stringify writes for a string (quotes and backslashes
\* escaped).
RECURSIVE JsonEscape(_)
JsonEscape(s) ==
    IF s = <<>> THEN <<>>
    ELSE (IF Head(s) \in {"\"", "\\"} THEN <<"\\", Head(s)>> ELSE <<Head(s)>>)
         \o JsonEscape(Tail(s))

JsonString(s) == <<"\"">> \o JsonEscape(s) \o <<"\"">>

RECURSIVE JsonStringify(_)
\* JSON.stringify: a key whose value is undefined is left out of an object.
JsonStringify(value) ==
    IF value.kind = "string" THEN JsonString(value.text)
    ELSE IF value.kind = "object" THEN
        LET kept == SelectSeq(value.entries, LAMBDA e : e[2] # Undefined)
            parts == [i \in 1..Len(kept) |->
                        JsonString(kept[i][1]) \o <<":">> \o JsonString(kept[i][2])]
        IN <<"{">> \o Join(parts, <<",">>) \o <<"}">>
    ELSE IF value.kind = "array" THEN
        LET parts == [i \in 1..Len(value.elems) |->
                        IF value.elems[i].kind = "undefined"
                        THEN <<"n","u","l","l">>
                        ELSE JsonStringify(value.elems[i])]
        IN <<"[">> \o Join(parts, <<",">>) \o <<"]">>
    ELSE Undefined

(***************************************************************************)
(* withExact: two global regular-expression replacements.                  *)
(***************************************************************************)
RECURSIVE ReplaceOpen(_)
\* .replace(/{[^|]/g, "{|"): the character after the brace is consumed.
ReplaceOpen(s) ==
    IF s = <<>> THEN <<>>
    ELSE IF Len(s) >= 2 /\ s[1] = "{" /\ s[2] # "|"
         THEN <<"{", "|">> \o ReplaceOpen(From(s, 3))
         ELSE <<s[1]>> \o ReplaceOpen(Tail(s))

RECURSIVE ReplaceClose(_)
\* .replace(/[^|]}/g, "|}"): the character before the brace is consumed.
ReplaceClose(s) ==
    IF s = <<>> THEN <<>>
    ELSE IF Len(s) >= 2 /\ s[1] # "|" /\ s[2] = "}"
         THEN <<"|", "}">> \o ReplaceClose(From(s, 3))
         ELSE <<s[1]>> \o ReplaceClose(Tail(s))

withExact(property) == ReplaceClose(ReplaceOpen(property))

(***************************************************************************)
(* Array.prototype.sort with the comparator a => (a[0] === "&" ? 1 : -1).  *)
(* The comparator ignores its second argument, so it is not a consistent   *)
(* comparison and the resulting order is what the engine's algorithm makes *)
(* of it.  Both algorithms V8 has used for short arrays are modelled.      *)
(***************************************************************************)
\* The comparator with its two results exchanged.
comparefnExchanged(a, b) == IF Len(a) >= 1 /\ a[1] = "&" THEN -1 ELSE 1

comparefn(a, b) == IF Len(a) >= 1 /\ a[1] = "&" THEN 1 ELSE -1

RECURSIVE InsertFromRight(_, _)
\* The inner loop of V8's InsertionSort (V8 before 7.0, arrays of at most
\* 10 elements): the element moves left past each tmp with
\* comparefn(tmp, element) > 0.
InsertFromRight(sorted, element) ==
    IF sorted = <<>> THEN <<element>>
    ELSE LET tmp == sorted[Len(sorted)]
         IN IF comparefn(tmp, element) > 0
            THEN InsertFromRight(SubSeq(sorted, 1, Len(sorted) - 1), element) \o <<tmp>>
            ELSE Append(sorted, element)

RECURSIVE InsertionSort(_, _)
InsertionSort(a, i) ==
    IF i > Len(a) THEN a
    ELSE InsertionSort(InsertFromRight(SubSeq(a, 1, i - 1), a[i]) \o From(a, i + 1), i + 1)

Reverse(a) == [i \in 1..Len(a) |-> a[Len(a) + 1 - i]]

RECURSIVE RunEnd(_, _, _)
\* CountAndMakeRun of V8's TimSort (V8 from 7.0): the length of the run that
\* starts the array; idx is the 1-based index of the next element to test.
RunEnd(a, idx, isDescending) ==
    IF idx > Len(a) THEN Len(a)
    ELSE LET order == comparefn(a[idx], a[idx - 1])
         IN IF (isDescending /\ order >= 0) \/ (~isDescending /\ order < 0)
            THEN idx - 1
            ELSE RunEnd(a, idx + 1, isDescending)

RECURSIVE BinarySearch(_, _, _, _)
\* The search of BinaryInsertionSort; left and right are 0-based as in V8.
BinarySearch(a, pivot, left, right) ==
    IF left >= right THEN left
    ELSE LET mid == left + ((right - left) \div 2)
         IN IF comparefn(pivot, a[mid + 1]) < 0
            THEN BinarySearch(a, pivot, left, mid)
            ELSE BinarySearch(a, pivot, mid + 1, right)

RECURSIVE BinaryInsertionSort(_, _)
\* start is the 0-based index of the element to insert next.
BinaryInsertionSort(a, start) ==
    IF start >= Len(a) THEN a
    ELSE LET pivot == a[start + 1]
             left == BinarySearch(a, pivot, 0, start)
         IN BinaryInsertionSort(
                SubSeq(a, 1, left) \o <<pivot>> \o SubSeq(a, left + 1, start)
                    \o From(a, start + 2),
                start + 1)

\* An array shorter than 64 elements is one run, completed by binary
\* insertion.
TimSort(a) ==
    IF Len(a) < 2 THEN a
    ELSE LET isDescending == comparefn(a[2], a[1]) < 0
             run == RunEnd(a, 3, isDescending)
             made == IF isDescending
                     THEN Reverse(SubSeq(a, 1, run)) \o From(a, run + 1)
                     ELSE a
         IN BinaryInsertionSort(made, run)

ArraySort(a) == IF engine = "TimSort" THEN TimSort(a) ELSE InsertionSort(a, 2)


(***************************************************************************)
(* The synthesis functions.                                                *)
(***************************************************************************)
RECURSIVE typeFor(_)
RECURSIVE propertiesList(_)
RECURSIVE propertiesTemplate(_)

\* value.replace(/"/g, ""), which throws when value is undefined.
ReplaceQuotes(value) ==
    IF value = TypeError \/ value = Undefined THEN TypeError ELSE StripQuotes(value)

\* One alternative of an items.oneOf list, as the callback of lines 39-42
\* renders it: an alternative of type object through e.items.
OneOfAlternative(e) ==
    IF TypeOf(e) = "object"
    THEN IF Has(e, "items")
         THEN ReplaceQuotes(propertiesTemplate(propertiesList(e.items)))
         ELSE TypeError
    ELSE typeFor(e)

typeFor(property) ==
    IF TypeOf(property) = "array" THEN
        IF ~Has(property, "items") THEN TypeError
        ELSE IF Has(property.items, "oneOf") THEN
            LET alts == [i \in 1..Len(property.items.oneOf) |->
                            OneOfAlternative(property.items.oneOf[i])]
            IN IF \E i \in 1..Len(alts) : alts[i] = TypeError
               THEN TypeError
               ELSE ArrayOf(Join([i \in 1..Len(alts) |-> JoinString(alts[i])],
                                 <<" ", "|", " ">>))
        ELSE IF Has(property.items, "$ref") THEN
            ArrayOf(TemplateString(definitionTypeName(property.items["$ref"])))
        ELSE IF TypeOf(property.items) = "object" THEN
            LET child == ReplaceQuotes(propertiesTemplate(propertiesList(property.items)))
            IN IF child = TypeError THEN TypeError ELSE ArrayOf(child)
        ELSE ArrayOf(TemplateString(TypeMappingAt(TypeOf(property.items))))
    ELSE IF TypeOf(property) = "string" /\ Has(property, "enum") THEN
        Join([i \in 1..Len(property.enum) |-> <<"'">> \o property.enum[i] \o <<"'">>],
             <<" ", "|", " ">>)
    ELSE IF Truthy(TypeMappingAt(TypeOf(property)))
         THEN TypeMappingAt(TypeOf(property))
         ELSE definitionTypeName(RefOf(property))

\* isRequired taking a schema without a required list to require every name.
isRequiredByDefault(propertyName, definition) ==
    \/ ~Has(definition, "required")
    \/ \E i \in 1..Len(definition.required) : definition.required[i] = propertyName

\* Truthiness of the value isRequired returns.
isRequired(propertyName, definition) ==
    /\ Has(definition, "required")
    /\ \E i \in 1..Len(definition.required) : definition.required[i] = propertyName

propertyKeyForDefinition(propName, definition) ==
    IF program.checkRequired
    THEN propName \o (IF isRequired(propName, definition) THEN <<>> ELSE <<"?">>)
    ELSE propName

RECURSIVE AssignAll(_, _)
\* Object.assign.apply(null, [target, ...sources]) for one-entry sources.
AssignAll(target, sources) ==
    IF sources = <<>> THEN target
    ELSE AssignAll(AssignEntry(target, Head(sources)[1], Head(sources)[2]), Tail(sources))

propertiesList(definition) ==
    IF Has(definition, "allOf") THEN
        LET members == [i \in 1..Len(definition.allOf) |-> propertiesList(definition.allOf[i])]
        IN IF \E i \in 1..Len(members) : members[i].kind = "throw"
           THEN Thrown
           ELSE ArrayValue(members)
    ELSE IF Truthy(RefOf(definition)) THEN
        ObjectValue(<< <<(<<"$","r","e","f">>), definitionTypeName(definition["$ref"])>> >>)
    ELSE IF Has(definition, "type") /\ definition.type # "object" THEN
        Lift(typeFor(definition))
    ELSE IF ~Has(definition, "properties") \/ Len(definition.properties) = 0 THEN
        ObjectValue(<<>>)
    ELSE
        LET types == [i \in 1..Len(definition.properties) |->
                        typeFor(definition.properties[i][2])]
            sources == [i \in 1..Len(definition.properties) |->
                        <<propertyKeyForDefinition(definition.properties[i][1], definition),
                          types[i]>>]
        IN IF \E i \in 1..Len(types) : types[i] = TypeError
           THEN Thrown
           ELSE ObjectValue(AssignAll(<<>>, sources))

\* definition.properties of a schema: undefined reads as falsy.
importsList(definition) ==
    IF ~Has(definition, "properties") THEN <<>>
    ELSE LET referenced(value) ==
                 IF Truthy(RefOf(value)) THEN <<definitionTypeName(value["$ref"])>>
                 ELSE IF TypeOf(value) = "array" /\ Has(value, "items")
                         /\ Truthy(RefOf(value.items))
                      THEN <<definitionTypeName(value.items["$ref"])>>
                      ELSE <<>>
         IN Join([i \in 1..Len(definition.properties) |->
                     referenced(definition.properties[i][2])], <<>>)

\* The operand one member of an allOf list is rendered as (lines 139-145).
Operand(property) ==
    IF property.kind = "undefined" THEN TypeError
    ELSE LET ref == IF property.kind = "object"
                    THEN Lookup(property.entries, <<"$","r","e","f">>)
                    ELSE Undefined
         IN IF Truthy(ref) THEN <<"&", " ">> \o ref
            ELSE IF program.exact THEN withExact(JsonStringify(property))
            ELSE JsonStringify(property)

propertiesTemplate(properties) ==
    IF properties.kind = "throw" THEN TypeError
    ELSE IF properties.kind = "string" THEN properties.text
    ELSE IF properties.kind = "array" THEN
        LET operands == [i \in 1..Len(properties.elems) |-> Operand(properties.elems[i])]
        IN IF \E i \in 1..Len(operands) : operands[i] = TypeError
           THEN TypeError
           ELSE Join(ArraySort(operands), <<" ">>)
    ELSE IF properties.kind = "undefined" THEN
        (IF program.exact THEN TypeError ELSE Undefined)
    ELSE IF program.exact THEN withExact(JsonStringify(properties))
    ELSE JsonStringify(properties)


(***************************************************************************)
(* Definitions collected from a document, and the text emitted for them.   *)
(***************************************************************************)
\* Whether `defs` is truthy after lines 198-203: a map, whatever its size,
\* is; swagger.components.schemas of a components object without schemas
\* is undefined.
HasDefs(doc) ==
    \/ Has(doc, "definitions")
    \/ Has(doc, "components") /\ Has(doc.components, "schemas")

DefsOf(doc) ==
    IF Has(doc, "definitions") THEN doc.definitions ELSE doc.components.schemas

NoDefinition == [kind |-> "throw", error |-> "There is no definition"]

Returned(value) == [kind |-> "return", value |-> value]

\* The reduce of lines 208-218; a TypeError thrown by propertiesList
\* leaves it.
CollectDefinitions(defs) ==
    LET made == [i \in 1..Len(defs) |->
                    [title |-> stripBrackets(removeGenericsBug(defs[i][1])),
                     properties |-> propertiesList(defs[i][2]),
                     imports |-> importsList(defs[i][2])]]
    IN IF \E i \in 1..Len(made) : made[i].properties.kind = "throw"
       THEN Thrown
       ELSE Returned(made)

\* generatorArray defaulting a missing map to the empty map.
generatorArrayDefaulting(doc) ==
    IF ~HasDefs(doc) THEN CollectDefinitions(<<>>) ELSE CollectDefinitions(DefsOf(doc))

generatorArray(doc) ==
    IF ~HasDefs(doc) THEN NoDefinition ELSE CollectDefinitions(DefsOf(doc))

ExportType == <<"e","x","p","o","r","t"," ","t","y","p","e"," ">>

ImportType == <<"i","m","p","o","r","t"," ","t","y","p","e"," ">>

\* `export type ${title} = ${propertiesTemplate(properties).replace(/"/g, "")};`
ExportStatement(title, properties) ==
    LET expression == ReplaceQuotes(propertiesTemplate(properties))
    IN IF expression = TypeError THEN TypeError
       ELSE ExportType \o title \o <<" ", "=", " ">> \o expression \o <<";">>

generate(doc) ==
    IF ~HasDefs(doc) THEN NoDefinition
    ELSE LET defs == DefsOf(doc)
         IN LET listed == [i \in 1..Len(defs) |-> propertiesList(defs[i][2])]
                g == [i \in 1..Len(defs) |->
                        ExportStatement(stripBrackets(defs[i][1]), listed[i])]
            IN IF \E i \in 1..Len(defs) : listed[i].kind = "throw" \/ g[i] = TypeError
               THEN Thrown
               ELSE Returned(g)

importTemplate(typeName) ==
    ImportType \o <<"{", " ">> \o TemplateString(typeName) \o <<" ", "}", " ">>
        \o <<"f","r","o","m"," ","'",".","/">> \o TemplateString(typeName) \o <<"'", ";">>

RECURSIVE Unique(_)
\* Array.from(new Set(a)): the first occurrence of each element, in order.
Unique(a) ==
    IF a = <<>> THEN <<>>
    ELSE LET front == Unique(SubSeq(a, 1, Len(a) - 1))
             last == a[Len(a)]
         IN IF \E i \in 1..Len(front) : front[i] = last THEN front ELSE Append(front, last)

\* importTemplates without the Set.
importTemplatesOfAll(definition) ==
    Join([i \in 1..Len(definition.imports) |-> importTemplate(definition.imports[i])],
         <<"\n">>)

importTemplates(definition) ==
    LET names == Unique(definition.imports)
    IN Join([i \in 1..Len(names) |-> importTemplate(names[i])], <<"\n">>)

generateTypeFile(definition) ==
    LET s == ExportStatement(definition.title, definition.properties)
    IN IF s = TypeError THEN TypeError ELSE importTemplates(definition) \o s

FlowHeader == <<"/","/"," ","@","f","l","o","w","\n">>

\* The index file of lines 314-327.
IndexFile(defs) ==
    LET imports == [i \in 1..Len(defs) |->
                       ImportType \o <<"{", " ">> \o defs[i].title \o <<" ","a","s"," ","_">>
                           \o defs[i].title \o <<" ", "}", " ">>
                           \o <<"f","r","o","m"," ","'",".","/">> \o defs[i].title
                           \o <<"'", ";">>]
        exports == [i \in 1..Len(defs) |->
                       ExportType \o defs[i].title \o <<" ", "=", " ", "_">>
                           \o defs[i].title \o <<";">>]
    IN FlowHeader \o Join(imports \o << <<" ">> >> \o exports, <<"\n">>) \o <<"\n">>


(***************************************************************************)
(* The documents and options a run may be given.                           *)
(***************************************************************************)
Pet == <<"P","e","t">>

Base == <<"B","a","s","e">>

Order == <<"O","r","d","e","r">>

PageOfPet == <<"P","a","g","e","«","P","e","t","»">>

Ref(pointer) == "$ref" :> pointer

\* The k-th property name of an object schema.
PropNames == << <<"i","d">>, <<"n","a","m","e">>, <<"t","a","g">>, <<"o","w","n","e","r">> >>

StringNode == [type |-> "string"]

IntegerNode == [type |-> "integer"]

InlineObject == [type |-> "object", properties |-> << <<PropNames[1], IntegerNode>> >>]

\* A node with neither a type nor a $ref.
UntypedNode == [description |-> "free form"]

\* The schemas a property may have.  Every pointer names a schema, as the
\* documents the tool is run on do.
PropValues ==
    { StringNode,
      IntegerNode,
      Ref(DefinitionsPrefix \o Pet),
      Ref(ComponentsPrefix \o Base),
      Ref(DefinitionsPrefix \o Order),
      [type |-> "array", items |-> Ref(DefinitionsPrefix \o Pet)],
      [type |-> "array", items |-> InlineObject],
      UntypedNode }

\* The maps of at most n properties, the k-th one named PropNames[k].
RECURSIVE PropertyMaps(_)
PropertyMaps(n) ==
    IF n = 0 THEN { <<>> }
    ELSE PropertyMaps(n - 1) \cup
         { Append(m, <<PropNames[n], v>>) :
             m \in { x \in PropertyMaps(n - 1) : Len(x) = n - 1 }, v \in PropValues }

RequiredLists == { <<>>, <<PropNames[1]>>, <<PropNames[2], PropNames[1]>> }

ObjectSchemas ==
    { [properties |-> m] : m \in PropertyMaps(MaxProps) }
    \cup { [type |-> "object", properties |-> m, required |-> r] :
             m \in PropertyMaps(MaxProps), r \in RequiredLists }
    \cup { [type |-> "object"] }

AllOfMembers ==
    { Ref(DefinitionsPrefix \o Base),
      Ref(ComponentsPrefix \o Pet),
      [type |-> "object"],
      [properties |-> << <<PropNames[3], StringNode>> >>],
      [properties |-> << <<PropNames[4], Ref(DefinitionsPrefix \o Pet)>> >>] }

RECURSIVE Lists(_, _)
\* The lists of at most n elements of S.
Lists(S, n) ==
    IF n = 0 THEN { <<>> }
    ELSE Lists(S, n - 1) \cup
         { Append(l, x) : l \in { y \in Lists(S, n - 1) : Len(y) = n - 1 }, x \in S }

AllOfSchemas == { [allOf |-> l] : l \in Lists(AllOfMembers, MaxAllOf) \ { <<>> } }

Pointers ==
    { DefinitionsPrefix \o Pet,
      ComponentsPrefix \o Pet,
      Pet,
      DefinitionsPrefix,
      ComponentsPrefix,
      <<"x">> \o ComponentsPrefix \o Base }

ReferenceSchemas == { Ref(p) : p \in Pointers }

OtherSchemas ==
    { StringNode,
      [type |-> "file"],
      [type |-> "string", enum |-> << <<"a">>, <<"b">>, <<"c">> >>],
      [type |-> "array", items |-> Ref(DefinitionsPrefix \o Pet)],
      [type |-> "array", items |-> IntegerNode],
      [type |-> "array", items |-> InlineObject],
      [type |-> "array", items |-> [oneOf |-> <<StringNode, Ref(DefinitionsPrefix \o Pet)>>]],
      [type |-> "array", items |-> [oneOf |-> <<IntegerNode, InlineObject>>]] }

Schemas == ObjectSchemas \cup AllOfSchemas \cup ReferenceSchemas \cup OtherSchemas

\* The definition maps: one schema named Order, alone or followed by a
\* second definition whose name carries generics markers and brackets.
SecondDefinition == <<PageOfPet \o <<"[", "]">>, [properties |-> << <<PropNames[1], IntegerNode>> >>]>>

TwoDefinitionSchemas == ReferenceSchemas \cup OtherSchemas \cup { [type |-> "object"] }

DefinitionMaps ==
    { <<>> }
    \cup { << <<Order, s>> >> : s \in Schemas }
    \cup { << <<Order, s>>, SecondDefinition >> : s \in TwoDefinitionSchemas }

Documents ==
    { [swagger |-> "2.0", definitions |-> d] : d \in DefinitionMaps }
    \cup { [openapi |-> "3.0.0", components |-> [schemas |-> d]] :
             d \in { << <<Order, s>>, SecondDefinition >> : s \in TwoDefinitionSchemas } }
    \cup { [openapi |-> "3.0.0", components |-> [securitySchemes |-> "none"]],
           [swagger |-> "2.0"] }

Engines == { "InsertionSort", "TimSort" }

(***************************************************************************)
(* The command handler (lines 296-335).                                    *)
(***************************************************************************)
Init ==
    /\ swagger \in Documents
    /\ program \in [checkRequired : BOOLEAN, exact : BOOLEAN]
    /\ engine \in Engines
    /\ pc = "start"
    /\ results = <<>>
    /\ next = 1
    /\ written = <<>>
    /\ console = <<>>

\* Line 300, generatorArray returning.
GeneratorArrayReturns ==
    /\ pc = "start"
    /\ generatorArray(swagger).kind = "return"
    /\ results' = generatorArray(swagger).value
    /\ pc' = "forEach"
    /\ UNCHANGED <<swagger, program, engine, next, written, console>>

\* Line 300, generatorArray throwing: the catch of lines 332-334 logs the
\* error and the handler ends.
GeneratorArrayThrows ==
    /\ pc = "start"
    /\ generatorArray(swagger).kind = "throw"
    /\ console' = Append(console, [kind |-> "error", error |-> generatorArray(swagger).error])
    /\ pc' = "done"
    /\ UNCHANGED <<swagger, program, engine, results, next, written>>

\* writeToFile(dist, result): the write is issued; its callback is not
\* awaited.
writeToFile(dist, result) == Append(written, [file |-> dist, text |-> result])

\* One iteration of results.forEach (lines 301-311).  The name is relative
\* to the destination directory; prettier.format is taken to return its
\* argument.
WriteTypeFile ==
    /\ pc = "forEach"
    /\ next <= Len(results)
    /\ LET definition == results[next]
           fileName == removeGenericsBug(definition.title) \o <<".", "j", "s">>
           generated == generateTypeFile(definition)
       IN IF generated = TypeError
          THEN /\ console' = Append(console, [kind |-> "error", error |-> "TypeError"])
               /\ pc' = "done"
               /\ UNCHANGED <<written, next>>
          ELSE /\ console' = Append(console, [kind |-> "generated", file |-> fileName])
               /\ written' = writeToFile(fileName, FlowHeader \o removeGenericsBug(generated))
               /\ next' = next + 1
               /\ pc' = pc
    /\ UNCHANGED <<swagger, program, engine, results>>

\* Lines 313-331: the index file, after the last iteration.
WriteIndexFile ==
    /\ pc = "forEach"
    /\ next > Len(results)
    /\ written' = writeToFile(<<"i","n","d","e","x",".","j","s">>, IndexFile(results))
    /\ console' = Append(console, [kind |-> "done"])
    /\ pc' = "done"
    /\ UNCHANGED <<swagger, program, engine, results, next>>

Next ==
    \/ GeneratorArrayReturns
    \/ GeneratorArrayThrows
    \/ WriteTypeFile
    \/ WriteIndexFile

Spec == Init /\ [][Next]_vars


(***************************************************************************)
(* What the properties below are stated with.                              *)
(***************************************************************************)
\* The i-th schema of the document's definition map.
SchemaAt(i) == DefsOf(swagger)[i][2]

\* generatorArray has returned and `results` holds its array.
Collected == pc = "forEach"

\* An object schema: no allOf, no $ref, and a type that is absent or object.
IsObjectSchema(d) ==
    /\ ~Has(d, "allOf")
    /\ ~Has(d, "$ref")
    /\ Has(d, "type") => d.type = "object"

HasProperties(d) == Has(d, "properties") /\ Len(d.properties) > 0

\* The text that follows the first '#/definitions/' or
\* '#/components/schemas/' of a pointer; empty when there is none.
TrailingName(pointer) ==
    LET at(i) == \/ i + 13 <= Len(pointer) /\ SubSeq(pointer, i, i + 13) = DefinitionsPrefix
                 \/ i + 20 <= Len(pointer) /\ SubSeq(pointer, i, i + 20) = ComponentsPrefix
        first == CHOOSE i \in 1..Len(pointer) :
                     at(i) /\ \A j \in 1..(i - 1) : ~at(j)
    IN IF \A i \in 1..Len(pointer) : ~at(i) THEN <<>>
       ELSE IF first + 13 <= Len(pointer)
               /\ SubSeq(pointer, first, first + 13) = DefinitionsPrefix
            THEN SubSeq(pointer, first + 14, Len(pointer))
            ELSE SubSeq(pointer, first + 21, Len(pointer))

\* Whether `line` occurs in `text`.
Contains(text, line) == \E i \in 1..Len(text) : StartsAt(text, i, line)

Arrangements(n) ==
    {f \in [1..n -> 1..n] : \A a, b \in 1..n : a # b => f[a] # f[b]}

ErrorLogged == \E k \in 1..Len(console) : console[k].kind = "error"

(***************************************************************************)
(* C1.                                                                     *)
(***************************************************************************)
C1_Applies(d) ==
    /\ Has(d, "allOf")
    /\ \A k \in 1..Len(d.allOf) : Has(d.allOf[k], "$ref") \/ IsObjectSchema(d.allOf[k])

C1_IsRefOperand(text) == Len(text) >= 2 /\ text[1] = "&" /\ text[2] = " "

\* C1: for an allOf definition whose members are each a $ref or an object
\* schema, the text propertiesTemplate returns for the list propertiesList
\* built is the operands joined by single spaces, in an order that places
\* every object-literal operand before every '& Name' operand.
C1_NonRefOperandsFirst ==
    Collected =>
        \A i \in 1..Len(results) :
            C1_Applies(SchemaAt(i)) =>
                LET elems == results[i].properties.elems
                    ops == [k \in 1..Len(elems) |-> Operand(elems[k])]
                    text == propertiesTemplate(results[i].properties)
                IN \E f \in Arrangements(Len(ops)) :
                       /\ text = Join([k \in 1..Len(ops) |-> ops[f[k]]], <<" ">>)
                       /\ \A a, b \in 1..Len(ops) :
                              a < b => ~(C1_IsRefOperand(ops[f[a]]) /\ ~C1_IsRefOperand(ops[f[b]]))

\* An allOf of three members has been collected whose first member is a
\* $ref and whose last is an object schema with a property.
C1_Witness ==
    /\ Collected
    /\ Len(results) >= 1
    /\ C1_Applies(SchemaAt(1))
    /\ Len(SchemaAt(1).allOf) = 3
    /\ Has(SchemaAt(1).allOf[1], "$ref")
    /\ Has(SchemaAt(1).allOf[2], "$ref")
    /\ HasProperties(SchemaAt(1).allOf[3])
    /\ results[1].properties.kind = "array"

(***************************************************************************)
(* C2.                                                                     *)
(***************************************************************************)
C2_NoMap ==
    /\ "definitions" \notin DOMAIN swagger
    /\ "components" \in DOMAIN swagger => "schemas" \notin DOMAIN swagger.components

\* C2: when the document has neither a definitions map nor a
\* components.schemas map, generatorArray and generate raise 'There is no
\* definition', and the run logs that error and issues no write.
C2_NoDefinitionNoWrite ==
    C2_NoMap =>
        /\ generate(swagger) = [kind |-> "throw", error |-> "There is no definition"]
        /\ written = <<>>
        /\ pc # "forEach"
        /\ pc = "done" =>
               console = <<[kind |-> "error", error |-> "There is no definition"]>>

\* A run on a document with a components object that has no schemas has
\* ended.
C2_Witness ==
    /\ pc = "done"
    /\ "components" \in DOMAIN swagger
    /\ "schemas" \notin DOMAIN swagger.components
    /\ "definitions" \notin DOMAIN swagger

(***************************************************************************)
(* C3.                                                                     *)
(***************************************************************************)
C3_Key(name, d) ==
    IF ~program.checkRequired THEN name
    ELSE IF "required" \in DOMAIN d /\ name \in {d.required[k] : k \in 1..Len(d.required)}
         THEN name
         ELSE name \o <<"?">>

C4_Referenced(d) ==
    IF ~Has(d, "properties") THEN <<>>
    ELSE LET pointerOf(v) ==
                 IF Has(v, "$ref") THEN <<v["$ref"]>>
                 ELSE IF Has(v, "type") /\ v.type = "array" /\ Has(v, "items")
                         /\ Has(v.items, "$ref")
                      THEN <<v.items["$ref"]>>
                      ELSE <<>>
             pointers == Join([k \in 1..Len(d.properties) |-> pointerOf(d.properties[k][2])],
                              <<>>)
         IN [k \in 1..Len(pointers) |-> TrailingName(pointers[k])]

\* The elements of a list at their first occurrence.
C4_FirstOccurrences(names) ==
    LET keep == {k \in 1..Len(names) : \A j \in 1..(k - 1) : names[j] # names[k]}
        nth(n) == CHOOSE k \in keep : Cardinality({j \in keep : j < k}) = n - 1
    IN [n \in 1..Cardinality(keep) |-> names[nth(n)]]

C4_ImportLine(name) ==
    <<"i","m","p","o","r","t"," ","t","y","p","e"," ","{"," ">> \o name
        \o <<" ","}"," ","f","r","o","m"," ","'",".","/">> \o name \o <<"'",";">>

\* C4: the text generateTypeFile returns starts with one 'import type'
\* line per distinct name the definition's direct properties refer to, in
\* the order of first occurrence, followed by the export statement.
C4_OneImportPerName ==
    Collected =>
        \A i \in 1..Len(results) :
            LET names == C4_FirstOccurrences(C4_Referenced(SchemaAt(i)))
                lines == [k \in 1..Len(names) |-> C4_ImportLine(names[k])]
            IN generateTypeFile(results[i]) =
                   Join(lines, <<"\n">>)
                       \o ExportStatement(results[i].title, results[i].properties)

\* A schema whose two properties both refer to Pet, one of them through an
\* array, has been collected and its file written.
C4_Witness ==
    /\ Collected
    /\ next = 2
    /\ IsObjectSchema(SchemaAt(1))
    /\ C4_Referenced(SchemaAt(1)) = <<Pet, Pet>>
    /\ Has(SchemaAt(1).properties[2][2], "items")
    /\ Contains(written[1].text, C4_ImportLine(Pet))


(***************************************************************************)
(* C5.                                                                     *)
(***************************************************************************)
\* The literal "{...}" with a '|' put after its opening and before its
\* closing brace.
C5_Marked(literal) ==
    <<"{", "|">> \o SubSeq(literal, 2, Len(literal) - 1) \o <<"|", "}">>

\* C5: with exact enabled, for the mapping of an object schema with any
\* number of properties, propertiesTemplate returns the literal it returns
\* with exact disabled with a '|' inserted after the opening and before the
\* closing brace, no other text being lost once quotes are stripped; and
\* in an allOf list a ref operand is '& Name' unchanged.
C5_ExactOnlyAddsMarkers ==
    (Collected /\ program.exact) =>
        \A i \in 1..Len(results) :
            LET d == SchemaAt(i)
                value == results[i].properties
            IN /\ IsObjectSchema(d) =>
                      StripQuotes(propertiesTemplate(value))
                          = C5_Marked(StripQuotes(JsonStringify(value)))
               /\ C1_Applies(d) =>
                      \A k \in 1..Len(d.allOf) :
                          Has(d.allOf[k], "$ref") =>
                              Operand(value.elems[k])
                                  = <<"&", " ">> \o TrailingName(d.allOf[k]["$ref"])

(***************************************************************************)
(* C6.                                                                     *)
(***************************************************************************)
\* C6: the import set of a definition generatorArray produced never
\* includes the definition's own title.
C6_NoSelfImport ==
    Collected =>
        \A i \in 1..Len(results) :
            \A k \in 1..Len(results[i].imports) :
                results[i].imports[k] # results[i].title

(***************************************************************************)
(* C7.                                                                     *)
(***************************************************************************)
\* C7: for every pointer, definitionTypeName raises no error and returns a
\* string, the text after the prefix the pointer contains (empty when
\* nothing follows it) or the empty string when it contains neither
\* prefix.  The pointers are those of the definitions that are a bare
\* $ref, whose marker holds what definitionTypeName returned.
C7_ReturnsTrailingName ==
    Collected =>
        \A i \in 1..Len(results) :
            (Has(SchemaAt(i), "$ref") /\ SchemaAt(i)["$ref"] # <<>>) =>
                LET pointer == SchemaAt(i)["$ref"]
                    returned == Lookup(results[i].properties.entries, <<"$","r","e","f">>)
                IN /\ returned = definitionTypeName(pointer)
                   /\ IsText(returned)
                   /\ returned = TrailingName(pointer)

(***************************************************************************)
(* C8.                                                                     *)
(***************************************************************************)
C8_Applies(d) == Has(d, "type") /\ d.type = "array" /\ Has(d, "items") /\ Has(d.items, "oneOf")

\* An alternative rendered from its own schema: an object through the
\* property list of its own properties, any other through typeFor.
C8_Alternative(e) ==
    IF Has(e, "type") /\ e.type = "object"
    THEN StripQuotes(propertiesTemplate(propertiesList(e)))
    ELSE typeFor(e)

\* C8: for an array schema whose items is a oneOf list, typeFor raises no
\* error (the run that collects the definition logs none) and returns 'Array<', the alternatives joined by ' | ' in list
\* order, and '>', an inline-object alternative being the object literal of
\* its own properties.
C8_OneOfArray ==
    HasDefs(swagger) => \A i \in 1..Len(DefsOf(swagger)) :
        C8_Applies(SchemaAt(i)) =>
            LET alts == SchemaAt(i).items.oneOf
            IN /\ pc = "done" => ~ErrorLogged
               /\ Collected =>
                      results[i].properties =
                          StringValue(ArrayOf(Join([k \in 1..Len(alts) |-> C8_Alternative(alts[k])],
                                                   <<" ", "|", " ">>)))

(***************************************************************************)
(* C9.                                                                     *)
(***************************************************************************)
\* A node that is not an array and not a string enum, whose type is absent
\* or not in the primitive table, and that has no $ref.
C9_Applies(node) ==
    /\ ~(Has(node, "type") /\ node.type = "array")
    /\ ~(Has(node, "type") /\ node.type = "string" /\ Has(node, "enum"))
    /\ ~Has(node, "type") \/ node.type \notin DOMAIN typeMapping
    /\ ~Has(node, "$ref")

\* C9: for such a node typeFor raises no error and yields undefined, and
\* the generation of the definition that holds it as a property goes on:
\* the run logs no error and the property's entry holds undefined.
C9_QuietFallback ==
    HasDefs(swagger) => \A i \in 1..Len(DefsOf(swagger)) :
        LET d == SchemaAt(i)
        IN (IsObjectSchema(d) /\ HasProperties(d)) =>
               \A k \in 1..Len(d.properties) :
                   C9_Applies(d.properties[k][2]) =>
                       /\ pc = "done" => ~ErrorLogged
                       /\ Collected => results[i].properties.entries[k][2] = Undefined

(***************************************************************************)
(* C10.                                                                    *)
(***************************************************************************)
\* The pointers of the properties of a schema: a $ref property, or an
\* array property whose items is a $ref.
C10_PropertyPointers(d) ==
    IF ~Has(d, "properties") THEN {}
    ELSE {d.properties[k][2]["$ref"] :
            k \in {j \in 1..Len(d.properties) : Has(d.properties[j][2], "$ref")}}
         \cup
         {d.properties[k][2].items["$ref"] :
            k \in {j \in 1..Len(d.properties) :
                     /\ Has(d.properties[j][2], "type")
                     /\ d.properties[j][2].type = "array"
                     /\ Has(d.properties[j][2], "items")
                     /\ Has(d.properties[j][2].items, "$ref")}}

\* The pointers the type expression of a definition refers to.
C10_Pointers(d) ==
    IF Has(d, "allOf")
    THEN {d.allOf[k]["$ref"] : k \in {j \in 1..Len(d.allOf) : Has(d.allOf[j], "$ref")}}
         \cup UNION {C10_PropertyPointers(d.allOf[k]) :
                        k \in {j \in 1..Len(d.allOf) : IsObjectSchema(d.allOf[j])}}
    ELSE IF Has(d, "type") /\ d.type = "array" /\ Has(d, "items") /\ Has(d.items, "$ref")
    THEN {d.items["$ref"]}
    ELSE IF IsObjectSchema(d) THEN C10_PropertyPointers(d)
    ELSE {}

\* C10: every named schema the type expression of a definition refers to
\* has an 'import type' line in the text generateTypeFile returns.
C10_ImportsComplete ==
    Collected =>
        \A i \in 1..Len(results) :
            \A pointer \in C10_Pointers(SchemaAt(i)) :
                Contains(generateTypeFile(results[i]), C4_ImportLine(TrailingName(pointer)))

=============================================================================
